---- MODULE Spec2Model ----
(***************************************************************************)
(* Model of MEDISCOPE/Server/LabMicroservice.py: the /parse request        *)
(* handler, extract_text and summarize_with_gemini, run by the threads of  *)
(* the Flask development server over one shared filesystem and one shared  *)
(* module-level ocr_reader.                                                *)
(*                                                                         *)
(* A Python str is a sequence of one-character strings, so that strip,     *)
(* slicing, join, len and the filename functions are computed as Python    *)
(* computes them.                                                          *)
(***************************************************************************)
EXTENDS Naturals, Sequences, FiniteSets, TLC

(***************************************************************************)
(* Bounds of the model.                                                    *)
(***************************************************************************)
\* Files carried by one upload-mode request.
MaxFiles == 2

\* Worker threads of the server, each serving at most one call.
Threads == {"t1", "t2"}

(***************************************************************************)
(* String literals of the program.                                         *)
(***************************************************************************)
UPLOAD_FOLDER == <<".", "/", "u", "p", "l", "o", "a", "d", "s">>

ImageExts ==
    { <<".", "j", "p", "g">>, <<".", "j", "p", "e", "g">>, <<".", "p", "n", "g">>,
      <<".", "b", "m", "p">>, <<".", "t", "i", "f", "f">> }

NoText == <<"[", "N", "o", " ", "t", "e", "x", "t", "]">>

ErrorPrefix == <<"[", "E", "r", "r", "o", "r", " ", "e", "x", "t", "r", "a", "c", "t", "i", "n", "g", " ", "t", "e", "x", "t", ":", " ">>

NoContent == <<"[", "N", "o", " ", "c", "o", "n", "t", "e", "n", "t", " ", "t", "o", " ", "s", "u", "m", "m", "a", "r", "i", "z", "e", "]">>

PromptPrefix == <<"S", "u", "m", "m", "a", "r", "i", "z", "e", " ", "t", "h", "i", "s", " ", "m", "e", "d", "i", "c", "a", "l", " ", "r", "e", "p", "o", "r", "t", " ", "s", "i", "m", "p", "l", "y", ":", "\n", "\n">>

\* text[:4000]
TruncLimit == 4000

NoSummary == <<"[", "N", "o", " ", "s", "u", "m", "m", "a", "r", "y", "]">>

GeminiFailedPrefix == <<"[", "G", "e", "m", "i", "n", "i", " ", "f", "a", "i", "l", "e", "d", ":", " ">>

MsgFromPath == <<"P", "a", "r", "s", "e", "d", " ", "(", "f", "r", "o", "m", " ", "p", "a", "t", "h", ")">>

MsgParsed == <<"P", "a", "r", "s", "e", "d", " ", "s", "u", "c", "c", "e", "s", "s", "f", "u", "l", "l", "y">>

MsgNotFound == <<"F", "i", "l", "e", " ", "n", "o", "t", " ", "f", "o", "u", "n", "d", ":", " ">>

MsgNoInput == <<"N", "o", " ", "f", "i", "l", "e", "s", " ", "o", "r", " ", "f", "i", "l", "e", "_", "p", "a", "t", "h", " ", "p", "r", "o", "v", "i", "d", "e", "d">>

SectionOpen == <<"\n", "=", "=", "=", " ">>

SectionClose == <<" ", "=", "=", "=", "\n">>

(***************************************************************************)
(* Python str operations.                                                  *)
(***************************************************************************)
\* The ASCII control characters VT, FS, GS, RS and US.
VT == ""

FS == ""

GS == ""

RS == ""

US == ""

\* The characters c of an ASCII str with c.isspace(), which str.strip() and
\* str.split() remove: space, \t \n \v \f \r and \x1c to \x1f.
Whitespace == {" ", "\t", "\n", VT, "\f", "\r", FS, GS, RS, US}

UpperChars == <<"A", "B", "C", "D", "E", "F", "G", "H", "I", "J", "K", "L", "M", "N", "O", "P", "Q", "R", "S", "T", "U", "V", "W", "X", "Y", "Z">>

LowerChars == <<"a", "b", "c", "d", "e", "f", "g", "h", "i", "j", "k", "l", "m", "n", "o", "p", "q", "r", "s", "t", "u", "v", "w", "x", "y", "z">>

Digits == <<"0", "1", "2", "3", "4", "5", "6", "7", "8", "9">>

Range(s) == {s[i] : i \in 1..Len(s)}

\* s.strip(chars): s without its leading and trailing characters of chars.
StripChars(s, chars) ==
    LET n == Len(s)
    IN  IF \A i \in 1..n : s[i] \in chars THEN <<>>
        ELSE LET lead  == CHOOSE k \in 0..n :
                              /\ \A j \in 1..k : s[j] \in chars
                              /\ s[k + 1] \notin chars
                 trail == CHOOSE k \in 0..n :
                              /\ \A j \in 1..k : s[n + 1 - j] \in chars
                              /\ s[n - k] \notin chars
             IN  SubSeq(s, lead + 1, n - trail)

\* s.strip()
Strip(s) == StripChars(s, Whitespace)

\* s[:n]
Take(s, n) == SubSeq(s, 1, IF Len(s) < n THEN Len(s) ELSE n)

\* c.lower() for one character.
LowerChar(c) ==
    IF \E k \in 1..Len(UpperChars) : UpperChars[k] = c
    THEN LowerChars[CHOOSE k \in 1..Len(UpperChars) : UpperChars[k] = c]
    ELSE c

\* s.lower()
Lower(s) == [i \in 1..Len(s) |-> LowerChar(s[i])]

\* s.rfind(c), counted from 1; 0 when c does not occur.
RFind(s, c) ==
    LET at == {i \in 1..Len(s) : s[i] = c}
    IN  IF at = {} THEN 0 ELSE CHOOSE i \in at : \A j \in at : j <= i

RECURSIVE JoinWith(_, _)
\* sep.join(parts)
JoinWith(parts, sep) ==
    IF parts = <<>> THEN <<>>
    ELSE IF Len(parts) = 1 THEN parts[1]
    ELSE parts[1] \o sep \o JoinWith(Tail(parts), sep)

\* "_".join(s.split()): the whitespace-separated words of s joined by "_".
SplitJoin(s) ==
    LET t == Strip(s)
        keep == {i \in 1..Len(t) : t[i] \notin Whitespace \/ t[i - 1] \notin Whitespace}
        nth(k) == CHOOSE i \in keep : Cardinality({j \in keep : j < i}) = k - 1
    IN  [k \in 1..Cardinality(keep) |->
            IF t[nth(k)] \in Whitespace THEN "_" ELSE t[nth(k)]]

(***************************************************************************)
(* Filename and path functions the handler calls.                          *)
(***************************************************************************)
\* werkzeug's _filename_ascii_strip_re keeps [A-Za-z0-9_.-].
FilenameChars == Range(UpperChars) \cup Range(LowerChars) \cup Range(Digits) \cup {"_", ".", "-"}

\* werkzeug.utils.secure_filename on an ASCII name, on a POSIX host (os.sep is
\* "/", there is no os.path.altsep, and no device name is special).
secure_filename(filename) ==
    LET spaced == [i \in 1..Len(filename) |->
                      IF filename[i] = "/" THEN " " ELSE filename[i]]
        kept == SelectSeq(SplitJoin(spaced), LAMBDA c : c \in FilenameChars)
    IN  StripChars(kept, {".", "_"})

\* os.path.join(a, b) on a POSIX host.
PathJoin(a, b) ==
    IF b # <<>> /\ b[1] = "/" THEN b
    ELSE IF a = <<>> \/ a[Len(a)] = "/" THEN a \o b
    ELSE a \o <<"/">> \o b

\* os.path.splitext(p)[1]: from the last dot of the last path component, unless
\* only dots precede it there.
SplitExt(p) ==
    LET sepIndex == RFind(p, "/")
        dotIndex == RFind(p, ".")
    IN  IF dotIndex > sepIndex /\ \E k \in (sepIndex + 1)..(dotIndex - 1) : p[k] # "."
        THEN SubSeq(p, dotIndex, Len(p))
        ELSE <<>>

(***************************************************************************)
(* extract_text and summarize_with_gemini: what they compute.              *)
(***************************************************************************)
\* ext in [".jpg", ".jpeg", ".png", ".bmp", ".tiff"], ext lowered.
IsImage(file_path) == Lower(SplitExt(file_path)) \in ImageExts

\* text = "\n".join(result) if result else "[No text]"
ImageText(result) ==
    IF result # <<>> THEN JoinWith(result, <<"\n">>) ELSE NoText

RECURSIVE DocText(_)
\* for page in doc: text += page.get_text("text") + "\n"
DocText(pages) ==
    IF pages = <<>> THEN <<>>
    ELSE pages[1] \o <<"\n">> \o DocText(Tail(pages))

\* return text.strip()
Trimmed(text) == Strip(text)

\* return f"[Error extracting text: {e}]"
ErrorText(msg) == ErrorPrefix \o msg \o <<"]">>

\* if not text: the test without strip().
NeedsCall_NoStrip(text) == text # <<>>

\* if not text.strip(): the remote service is called only past this test.
NeedsCall(text) == Strip(text) # <<>>

\* The prompt without the [:4000] slice.
Prompt_Untruncated(text) == PromptPrefix \o text

\* f"Summarize this medical report simply:\n\n{text[:4000]}"
Prompt(text) == PromptPrefix \o Take(text, TruncLimit)

\* f"[Gemini failed: {e}]"
GeminiFailed(msg) == GeminiFailedPrefix \o msg \o <<"]">>

\* f"\n=== {filename} ===\n{text}\n"
Section(filename, text) ==
    SectionOpen \o filename \o SectionClose \o text \o <<"\n">>

\* diagnostics.setdefault(filename, {"length": len(text)})
SetDiagnostics_FirstWins(diagnostics, filename, text) ==
    diagnostics @@ (filename :> [length |-> Len(text)])

\* diagnostics[filename] = {"length": len(text)}
SetDiagnostics(diagnostics, filename, text) ==
    (filename :> [length |-> Len(text)]) @@ diagnostics

(***************************************************************************)
(* The environment: file contents, the remote service, the calls made.     *)
(***************************************************************************)
\* What the library makes of a file: easyocr's readtext(detail=0) and fitz
\* either raise on it or return a list of strings (lines, or page texts).
Decoded(parts) == [raises |-> FALSE, msg |-> <<>>, parts |-> parts]

Corrupt(msg) == [raises |-> TRUE, msg |-> msg, parts |-> <<>>]

\* What the library makes of a file of no bytes.
Truncated == Corrupt(<<"e", "m", "p", "t", "y">>)

\* Opening a path that holds no regular file.
CannotOpen == Corrupt(<<"n", "o", " ", "f", "i", "l", "e">>)

Rep(n, c) == [i \in 1..n |-> c]

DataHi == Decoded(<< <<"H", "i">> >>)

DataTwo == Decoded(<< <<" ", "a", " ">>, <<"b", " ">> >>)

DataNone == Decoded(<<>>)

DataBlank == Decoded(<< <<" ">> >>)

DataEmptyLine == Decoded(<< <<>>, <<>> >>)

DataBad == Corrupt(<<"b", "a", "d">>)

DataLong == Decoded(<< Rep(TruncLimit + 1, "x") >>)

DataControls == Decoded(<< <<VT>>, <<FS, " ", US>> >>)

DataPadded == Decoded(<< <<VT, "H", "i", RS>> >>)

\* What the library may return for bytes that are no single document: the
\* text of something that is neither upload.
DataGarbled == Decoded(<< <<"?">> >>)

\* The number of bytes of the document that decodes to data.
SizeOf(data) == IF data = DataTwo THEN 3 ELSE IF data = DataHi THEN 2 ELSE 1

\* The bytes of the document that decodes to data: byte k of its SizeOf(data).
Bytes(data) == [k \in 1..SizeOf(data) |-> [of |-> data, at |-> k]]

\* bytes are exactly those of one document.
Intact(bytes) ==
    /\ bytes # <<>>
    /\ Len(bytes) = SizeOf(bytes[1].of)
    /\ \A k \in 1..Len(bytes) : bytes[k] = [of |-> bytes[1].of, at |-> k]

\* What readtext or fitz.open may make of a file holding bytes: a whole
\* document decodes to its content and no bytes raise; a document followed by
\* bytes of another leaves it to the library to ignore the bytes that follow,
\* to raise, or to return other text.
Library(bytes) ==
    IF bytes = <<>> THEN {Truncated}
    ELSE IF Intact(bytes) THEN {bytes[1].of}
    ELSE {bytes[1].of, DataBad, DataGarbled}

\* A write of bytes at offset 0 of a file holding old: the bytes of old past
\* the written ones stay.
Overlay(old, bytes) ==
    bytes \o SubSeq(old, Len(bytes) + 1, Len(old))

NamePng == <<"a", ".", "p", "n", "g">>

NameSlashPng == <<"/", "a", ".", "p", "n", "g">>

NamePdf == <<"b", ".", "p", "d", "f">>

NameDots == <<".", ".">>

NameUpperJpg == <<"A", " ", "b", ".", "J", "P", "G">>

NameControlPng == <<"a", VT, "b", US, ".", "p", "n", "g">>

\* Paths a path-mode request or a direct call may name.
StoredPng == <<"r", ".", "p", "n", "g">>

MissingPdf == <<"m", ".", "p", "d", "f">>

UploadedPng == PathJoin(UPLOAD_FOLDER, NamePng)

StoredPaths ==
    { <<"r">> \o e : e \in ImageExts } \cup
    { <<"R", ".", "J", "P", "G">>, <<"R", ".", "T", "i", "f", "f">>,
      <<"r", ".", "p", "d", "f">>, <<"r">>, <<"r", ".", "p", "n", "g", "/", "r">> }

UploadNames == {NamePng, NameSlashPng, NamePdf, NameDots, NameUpperJpg, NameControlPng}

\* The paths parse() saves uploads at.
UploadPaths == {PathJoin(UPLOAD_FOLDER, secure_filename(n)) : n \in UploadNames}

\* The answers of the remote service to generate_content.
GeminiOutcomes ==
    { [kind |-> "text", text |-> <<VT, " ", "o", "k", "\n", US>>],
      [kind |-> "notext", text |-> <<>>],
      [kind |-> "raises", text |-> <<"q", "u", "o", "t", "a">>] }

\* easyocr.Reader(["en"], gpu=False) failing (no model, no memory).
ReaderFailed == <<"n", "o", " ", "m", "o", "d", "e", "l">>

NoCall ==
    [fn |-> "none", hasPath |-> FALSE, file_path |-> <<>>, hasFiles |-> FALSE,
     files |-> <<>>, text |-> <<>>]

\* POST /parse with the form field file_path and the file parts files.
ParseCall(hasPath, file_path, files) ==
    [fn |-> "parse", hasPath |-> hasPath, file_path |-> file_path,
     hasFiles |-> files # <<>>, files |-> files, text |-> <<>>]

ExtractCall(file_path) ==
    [fn |-> "extract_text", hasPath |-> FALSE, file_path |-> file_path,
     hasFiles |-> FALSE, files |-> <<>>, text |-> <<>>]

SummarizeCall(text) ==
    [fn |-> "summarize_with_gemini", hasPath |-> FALSE, file_path |-> <<>>,
     hasFiles |-> FALSE, files |-> <<>>, text |-> text]

\* The non-empty lists of at most MaxFiles uploads drawn from parts.
FileLists(parts) ==
    UNION { [1..n -> parts] : n \in 1..MaxFiles }

\* One file part of a request: its filename and the bytes of its stream.
Upload(filename, data) == [filename |-> filename, bytes |-> Bytes(data)]

(***************************************************************************)
(* State.                                                                  *)
(***************************************************************************)
VARIABLES
    fs,           \* the filesystem: path -> [kind, bytes, owner, complete, ino]
    ocr_reader,   \* the module global: 0 is None, n > 0 the n-th Reader built
    constructed,  \* how many easyocr.Reader instances have been built
    inbox,        \* the call each thread serves
    pc,           \* where each thread is in its call
    loc,          \* the locals of each thread's call
    resp,         \* the HTTP response of each thread's request
    outbound,     \* the prompts each thread sent to the remote service
    log           \* the filesystem and OCR calls each thread made, in order

vars == <<fs, ocr_reader, constructed, inbox, pc, loc, resp, outbound, log>>

\* The file a path names, apart from its name: the one the host had, or the
\* one thread by created when it saved its at-th upload.
Inode(by, at) == [by |-> by, at |-> at]

NoInode == Inode("none", 0)

NoFile ==
    [kind |-> "none", bytes |-> <<>>, owner |-> "none", complete |-> FALSE, ino |-> NoInode]

Directory ==
    [kind |-> "dir", bytes |-> <<>>, owner |-> "none", complete |-> FALSE, ino |-> NoInode]

\* A regular file: its bytes, who opened it for writing last, whether that
\* writer has written, and which file it is.
File(bytes, owner, complete, ino) ==
    [kind |-> "file", bytes |-> bytes, owner |-> owner, complete |-> complete, ino |-> ino]

HostFile(data) == File(Bytes(data), "host", TRUE, Inode("host", 0))

\* parse() without its os.path.exists test.
Exists_Always(path) == TRUE

\* os.path.exists(path)
Exists(path) == fs[path].kind # "none"

\* What opening and decoding the file at path may give.
ReadFile(path) ==
    IF fs[path].kind = "file" THEN Library(fs[path].bytes) ELSE {CannotOpen}

\* The locals of a call: those of parse() (i, filename, path, text, texts,
\* combined_text, diagnostics, summary), the file f.save holds open (handle),
\* the Reader extract_text built or loaded (reader), what the library returned
\* to it (got), and the argument and return value of summarize_with_gemini.
NoLocals ==
    [ctx |-> "none", i |-> 0, filename |-> <<>>, path |-> <<>>, handle |-> NoInode,
     reader |-> 0, got |-> CannotOpen, text |-> <<>>,
     texts |-> <<>>, combined_text |-> <<>>, diagnostics |-> <<>>, sumIn |-> <<>>,
     summary |-> <<>>, ret |-> <<>>, returned |-> FALSE]

NoResponse == [status |-> 0, body |-> [none |-> TRUE]]

\* One call as the log keeps it: what was at path when it was made (the kind
\* of the file, who wrote it last and whether that write was completed) and,
\* for an OCR call, the Reader it was made on.
Event(op, path, found, reader) ==
    [op |-> op, path |-> path, kind |-> found.kind, owner |-> found.owner,
     complete |-> found.complete, reader |-> reader]

Logged(t, op, path, reader) ==
    [log EXCEPT ![t] = Append(@, Event(op, path, fs[path], reader))]

\* The state after the module is imported: the upload folder exists and is
\* empty, ocr_reader is None; one file of the host is at stored. Thread t1 is
\* given a call of calls1 and every other thread a call of calls2; paths are
\* the paths the calls can name.
InitWith(paths, stored, data, calls1, calls2) ==
    /\ fs = [p \in paths \cup {stored, UPLOAD_FOLDER} \cup UploadPaths |->
                IF p = UPLOAD_FOLDER \/ p = PathJoin(UPLOAD_FOLDER, <<>>) THEN Directory
                ELSE IF p = stored THEN HostFile(data)
                ELSE NoFile]
    /\ ocr_reader = 0
    /\ constructed = 0
    /\ \E c1 \in calls1, c2 \in calls2 :
          inbox = [t \in Threads |-> IF t = "t1" THEN c1 ELSE c2]
    /\ pc = [t \in Threads |-> "idle"]
    /\ loc = [t \in Threads |-> NoLocals]
    /\ resp = [t \in Threads |-> NoResponse]
    /\ outbound = [t \in Threads |-> <<>>]
    /\ log = [t \in Threads |-> <<>>]

(***************************************************************************)
(* POST /parse: parse().                                                   *)
(***************************************************************************)
\* jsonify(...) with a status.
Respond(t, status, body) ==
    /\ resp' = [resp EXCEPT ![t] = [status |-> status, body |-> body]]
    /\ pc' = [pc EXCEPT ![t] = "done"]

\* An exception leaves parse(): Flask answers 500.
Escapes(t, exception) == Respond(t, 500, [exception |-> exception])

\* parse() testing "files" in request.files before "file_path" in request.form.
Mode_FilesFirst(q) ==
    IF q.hasFiles THEN "upload"
    ELSE IF q.hasPath THEN "path"
    ELSE "none"

\* Which branch of parse() a request takes: "file_path" in request.form is
\* tested first, then "files" in request.files.
Mode(q) ==
    IF q.hasPath THEN "path"
    ELSE IF ~q.hasFiles THEN "none"
    ELSE "upload"

\* The for loop over files: the next file, or the code after the loop.
LoopNext(q, i) == IF i <= Len(q.files) THEN "save" ELSE "summarize"

\* Lines 76-95: the tests on the request and, in path mode, os.path.exists.
ParseBegin(t) ==
    /\ pc[t] = "idle"
    /\ inbox[t].fn = "parse"
    /\ LET q == inbox[t]
       IN  CASE Mode(q) = "path" /\ ~Exists(q.file_path) ->
                    /\ Respond(t, 400, [error |-> MsgNotFound \o q.file_path])
                    /\ log' = Logged(t, "exists", q.file_path, 0)
                    /\ UNCHANGED loc
             [] Mode(q) = "path" /\ Exists(q.file_path) ->
                    /\ loc' = [loc EXCEPT ![t] = [@ EXCEPT !.ctx = "path", !.path = q.file_path]]
                    /\ pc' = [pc EXCEPT ![t] = "extract"]
                    /\ log' = Logged(t, "exists", q.file_path, 0)
                    /\ UNCHANGED resp
             [] Mode(q) = "none" ->
                    /\ Respond(t, 400, [error |-> MsgNoInput])
                    /\ UNCHANGED <<loc, log>>
             [] Mode(q) = "upload" ->
                    /\ loc' = [loc EXCEPT ![t] = [@ EXCEPT !.ctx = "upload", !.i = 1]]
                    /\ pc' = [pc EXCEPT ![t] = LoopNext(q, 1)]
                    /\ UNCHANGED <<resp, log>>
    /\ UNCHANGED <<fs, ocr_reader, constructed, inbox, outbound>>

\* Lines 98-100: the filename, the path, and f.save(path) opening path for
\* writing: a file that is there is emptied and stays the same file, otherwise
\* a new file is created. Opening a directory raises; the host may refuse any
\* open (permissions, no space).
SaveOpen(t) ==
    /\ pc[t] = "save"
    /\ LET f == inbox[t].files[loc[t].i]
           filename == secure_filename(f.filename)
           path == PathJoin(UPLOAD_FOLDER, filename)
           ino == IF fs[path].kind = "file" THEN fs[path].ino ELSE Inode(t, loc[t].i)
       IN  \/ /\ fs[path].kind # "dir"
              /\ fs' = [fs EXCEPT ![path] = File(<<>>, t, FALSE, ino)]
              /\ loc' = [loc EXCEPT ![t] = [@ EXCEPT
                            !.filename = filename, !.path = path, !.handle = ino]]
              /\ log' = Logged(t, "open", path, 0)
              /\ pc' = [pc EXCEPT ![t] = "write"]
              /\ UNCHANGED resp
           \/ /\ fs[path].kind = "dir"
              /\ loc' = [loc EXCEPT ![t] = [@ EXCEPT !.filename = filename, !.path = path]]
              /\ Escapes(t, "IsADirectoryError")
              /\ UNCHANGED <<fs, log>>
           \/ /\ fs[path].kind # "dir"
              /\ loc' = [loc EXCEPT ![t] = [@ EXCEPT !.filename = filename, !.path = path]]
              /\ Escapes(t, "OSError")
              /\ UNCHANGED <<fs, log>>
    /\ UNCHANGED <<ocr_reader, constructed, inbox, outbound>>

\* Line 100: f.save(path) writing the upload's bytes, from offset 0, to the
\* file it opened (an upload is shorter than the copy buffer: one write). The
\* bytes another thread wrote to that file past the upload's length stay. When
\* another thread removed the file meanwhile the bytes go to the unlinked
\* file, and path names no file or a newer one, which is left as it is. The
\* host may fail the write, leaving the file as it is.
SaveWrite(t) ==
    /\ pc[t] = "write"
    /\ LET path == loc[t].path
           f == inbox[t].files[loc[t].i]
       IN  \/ /\ fs' = [fs EXCEPT ![path] =
                            IF @.kind = "file" /\ @.ino = loc[t].handle
                            THEN File(Overlay(@.bytes, f.bytes), t, TRUE, @.ino)
                            ELSE @]
              /\ log' = Logged(t, "write", path, 0)
              /\ pc' = [pc EXCEPT ![t] = "extract"]
              /\ UNCHANGED resp
           \/ /\ Escapes(t, "OSError")
              /\ UNCHANGED <<fs, log>>
    /\ UNCHANGED <<ocr_reader, constructed, inbox, loc, outbound>>

(***************************************************************************)
(* extract_text(file_path).                                                *)
(***************************************************************************)
\* The text extract_text returns for what the library gave: the except branch
\* returns the error string as it is, the others return text.strip().
Extracted(image, got) ==
    IF got.raises THEN ErrorText(got.msg)
    ELSE IF image THEN Trimmed(ImageText(got.parts))
    ELSE Trimmed(DocText(got.parts))

\* extract_text(file_path), given what the library makes of the file.
extract_text(file_path, got) == Extracted(IsImage(file_path), got)

\* extract_text, its locals being l, returns text: to parse() in path mode
\* (lines 84-85), to the loop of parse() in upload mode (lines 102-104), or to
\* the direct caller.
ExtractReturn(t, l, text) ==
    CASE l.ctx = "path" ->
             /\ loc' = [loc EXCEPT ![t] = [l EXCEPT !.text = text, !.sumIn = text]]
             /\ pc' = [pc EXCEPT ![t] = "summarize"]
      [] l.ctx = "upload" ->
             /\ loc' = [loc EXCEPT ![t] = [l EXCEPT
                           !.text = text,
                           !.texts = Append(@, text),
                           !.combined_text = @ \o Section(l.filename, text),
                           !.diagnostics = SetDiagnostics(@, l.filename, text)]]
             /\ pc' = [pc EXCEPT ![t] = "remove"]
      [] l.ctx = "direct" ->
             /\ loc' = [loc EXCEPT ![t] = [l EXCEPT
                           !.text = text, !.ret = text, !.returned = TRUE]]
             /\ pc' = [pc EXCEPT ![t] = "done"]

\* A direct call of extract_text.
CallExtract(t) ==
    /\ pc[t] = "idle"
    /\ inbox[t].fn = "extract_text"
    /\ loc' = [loc EXCEPT ![t] = [@ EXCEPT !.ctx = "direct", !.path = inbox[t].file_path]]
    /\ pc' = [pc EXCEPT ![t] = "extract"]
    /\ UNCHANGED <<fs, ocr_reader, constructed, inbox, resp, outbound, log>>

\* Lines 32-37 and 42-44: the extension test; an image reads the global
\* ocr_reader (line 37), anything else is opened and read by fitz.
ExtractBegin(t) ==
    /\ pc[t] = "extract"
    /\ LET path == loc[t].path
       IN  IF IsImage(path)
           THEN /\ pc' = [pc EXCEPT ![t] = IF ocr_reader = 0 THEN "construct" ELSE "load"]
                /\ UNCHANGED <<loc, log>>
           ELSE \E got \in ReadFile(path) :
                    /\ ExtractReturn(t, [loc[t] EXCEPT !.got = got], extract_text(path, got))
                    /\ log' = Logged(t, "read", path, 0)
    /\ UNCHANGED <<fs, ocr_reader, constructed, inbox, resp, outbound>>

\* Line 38, right of the "=": easyocr.Reader(["en"], gpu=False) builds a
\* Reader, or raises and the except branch returns the error string.
Construct(t) ==
    /\ pc[t] = "construct"
    /\ \/ /\ constructed' = constructed + 1
          /\ loc' = [loc EXCEPT ![t] = [@ EXCEPT !.reader = constructed + 1]]
          /\ log' = [log EXCEPT ![t] = Append(@, Event("construct", loc[t].path, NoFile, constructed + 1))]
          /\ pc' = [pc EXCEPT ![t] = "assign"]
       \/ /\ ExtractReturn(t, loc[t], ErrorText(ReaderFailed))
          /\ UNCHANGED <<constructed, log>>
    /\ UNCHANGED <<fs, ocr_reader, inbox, resp, outbound>>

\* Line 38, the assignment: the global ocr_reader names the Reader built.
AssignReader(t) ==
    /\ pc[t] = "assign"
    /\ ocr_reader' = loc[t].reader
    /\ pc' = [pc EXCEPT ![t] = "load"]
    /\ UNCHANGED <<fs, constructed, inbox, loc, resp, outbound, log>>

\* Line 39, the name ocr_reader: the Reader the global names now is the one
\* readtext is called on.
LoadReader(t) ==
    /\ pc[t] = "load"
    /\ loc' = [loc EXCEPT ![t] = [@ EXCEPT !.reader = ocr_reader]]
    /\ pc' = [pc EXCEPT ![t] = "readtext"]
    /\ UNCHANGED <<fs, ocr_reader, constructed, inbox, resp, outbound, log>>

\* Lines 39-40: readtext(file_path, detail=0) of the Reader loaded reads the
\* file that is at file_path now, and its text is returned.
ReadText(t) ==
    /\ pc[t] = "readtext"
    /\ LET path == loc[t].path
       IN  \E got \in ReadFile(path) :
               /\ ExtractReturn(t, [loc[t] EXCEPT !.got = got], extract_text(path, got))
               /\ log' = Logged(t, "read", path, loc[t].reader)
    /\ UNCHANGED <<fs, ocr_reader, constructed, inbox, resp, outbound>>

\* The loop without its os.remove(path).
Remove_Skipped(t) ==
    /\ pc[t] = "remove"
    /\ loc' = [loc EXCEPT ![t] = [@ EXCEPT
                  !.i = @ + 1,
                  !.sumIn = IF loc[t].i + 1 <= Len(inbox[t].files)
                            THEN @ ELSE loc[t].combined_text]]
    /\ pc' = [pc EXCEPT ![t] = LoopNext(inbox[t], loc[t].i + 1)]
    /\ UNCHANGED <<fs, ocr_reader, constructed, inbox, resp, outbound, log>>

\* Line 107: os.remove(path), then the next file or the end of the loop. A
\* path that holds no file raises FileNotFoundError; the host may refuse to
\* remove a file that is there.
Remove(t) ==
    /\ pc[t] = "remove"
    /\ LET path == loc[t].path
       IN  \/ /\ fs[path].kind = "file"
              /\ fs' = [fs EXCEPT ![path] = NoFile]
              /\ log' = Logged(t, "remove", path, 0)
              /\ loc' = [loc EXCEPT ![t] = [@ EXCEPT
                            !.i = @ + 1,
                            !.sumIn = IF loc[t].i + 1 <= Len(inbox[t].files)
                                      THEN @ ELSE loc[t].combined_text]]
              /\ pc' = [pc EXCEPT ![t] = LoopNext(inbox[t], loc[t].i + 1)]
              /\ UNCHANGED resp
           \/ /\ fs[path].kind # "file"
              /\ Escapes(t, "FileNotFoundError")
              /\ UNCHANGED <<fs, log, loc>>
           \/ /\ fs[path].kind = "file"
              /\ Escapes(t, "OSError")
              /\ UNCHANGED <<fs, log, loc>>
    /\ UNCHANGED <<ocr_reader, constructed, inbox, outbound>>

(***************************************************************************)
(* summarize_with_gemini(text).                                            *)
(***************************************************************************)
\* Line 65 and lines 66-68: the summary for an answer of the service.
SummaryOf(answer) ==
    CASE answer.kind = "text" -> Strip(answer.text)
      [] answer.kind = "notext" -> NoSummary
      [] answer.kind = "raises" -> GeminiFailed(answer.text)

\* No call of the remote service, hence no answer.
NoAnswer == [kind |-> "none", text |-> <<>>]

\* summarize_with_gemini(text), given the answer of the remote service when
\* it is called.
summarize_with_gemini(text, answer) ==
    IF ~NeedsCall(text) THEN NoContent ELSE SummaryOf(answer)

\* A direct call of summarize_with_gemini.
CallSummarize(t) ==
    /\ pc[t] = "idle"
    /\ inbox[t].fn = "summarize_with_gemini"
    /\ loc' = [loc EXCEPT ![t] = [@ EXCEPT !.ctx = "direct", !.sumIn = inbox[t].text]]
    /\ pc' = [pc EXCEPT ![t] = "summarize"]
    /\ UNCHANGED <<fs, ocr_reader, constructed, inbox, resp, outbound, log>>

\* Lines 87 and 112-116: the 200 payload of the mode.
Payload(ctx, diagnostics, summary) ==
    IF ctx = "path"
    THEN [message |-> MsgFromPath, summary |-> summary]
    ELSE [message |-> MsgParsed, diagnostics |-> diagnostics, summary |-> summary]

\* summarize_with_gemini returns summary: to the direct caller, or to parse(),
\* which answers 200 with the payload (lines 85-87, 109-116).
SummarizeReturn(t, summary) ==
    /\ loc' = [loc EXCEPT ![t] = [@ EXCEPT
                  !.summary = summary, !.ret = summary,
                  !.returned = (loc[t].ctx = "direct")]]
    /\ IF loc[t].ctx = "direct"
       THEN /\ pc' = [pc EXCEPT ![t] = "done"]
            /\ UNCHANGED resp
       ELSE Respond(t, 200, Payload(loc[t].ctx, loc[t].diagnostics, summary))

\* Lines 57-63: the sentinel for blank text is returned at once; otherwise
\* generate_content sends the prompt to the remote service and waits.
Summarize(t) ==
    /\ pc[t] = "summarize"
    /\ LET text == loc[t].sumIn
       IN  \/ /\ ~NeedsCall(text)
              /\ SummarizeReturn(t, summarize_with_gemini(text, NoAnswer))
              /\ UNCHANGED outbound
           \/ /\ NeedsCall(text)
              /\ outbound' = [outbound EXCEPT ![t] = Append(@, Prompt(text))]
              /\ pc' = [pc EXCEPT ![t] = "await"]
              /\ UNCHANGED <<loc, resp>>
    /\ UNCHANGED <<fs, ocr_reader, constructed, inbox, log>>

\* Lines 62-68: generate_content returns the answer of the remote service or
\* raises, and the summary made of it is returned. Nothing bounds the wait.
Answered(t) ==
    /\ pc[t] = "await"
    /\ \E answer \in GeminiOutcomes :
          SummarizeReturn(t, summarize_with_gemini(loc[t].sumIn, answer))
    /\ UNCHANGED <<fs, ocr_reader, constructed, inbox, outbound, log>>

Next ==
    \E t \in Threads :
        \/ ParseBegin(t)
        \/ SaveOpen(t)
        \/ SaveWrite(t)
        \/ CallExtract(t)
        \/ ExtractBegin(t)
        \/ Construct(t)
        \/ AssignReader(t)
        \/ LoadReader(t)
        \/ ReadText(t)
        \/ Remove(t)
        \/ CallSummarize(t)
        \/ Summarize(t)
        \/ Answered(t)

(***************************************************************************)
(* Specifications.                                                         *)
(***************************************************************************)
\* Two threads serving calls at once, on short texts.
ConcurrentUploads ==
    { Upload(NamePng, DataHi) }

ConcurrentCalls ==
    { NoCall, ParseCall(FALSE, <<>>, <<>>),
      ParseCall(TRUE, StoredPng, <<>>), ParseCall(TRUE, MissingPdf, <<>>),
      ParseCall(TRUE, UploadedPng, <<>>),
      ParseCall(TRUE, StoredPng, <<Upload(NamePdf, DataHi)>>),
      ParseCall(TRUE, MissingPdf, <<Upload(NamePdf, DataHi)>>),
      ParseCall(FALSE, <<>>, <<Upload(NameDots, DataHi)>>),
      ParseCall(FALSE, <<>>, <<Upload(NamePdf, DataTwo)>>),
      ParseCall(FALSE, <<>>, <<Upload(NameSlashPng, DataBad)>>),
      ExtractCall(StoredPng), SummarizeCall(<<"H", "i">>) }
    \cup { ParseCall(FALSE, <<>>, fl) : fl \in FileLists(ConcurrentUploads) }

\* The calls that meet those of the first thread.
InterferingCalls ==
    { NoCall, ParseCall(FALSE, <<>>, <<Upload(NamePng, DataTwo)>>) }

Init == InitWith({MissingPdf}, StoredPng, DataHi, ConcurrentCalls, InterferingCalls)

Spec == Init /\ [][Next]_vars

\* One thread serving one call, on the texts, extensions and recognizer
\* results that decide what extract_text and summarize_with_gemini return.
StoredData ==
    { DataHi, DataTwo, DataNone, DataBlank, DataEmptyLine, DataBad, DataLong,
      DataControls, DataPadded }

PathCalls(path) ==
    { ExtractCall(path), ParseCall(TRUE, path, <<>>),
      ParseCall(TRUE, path, <<Upload(NamePdf, DataHi)>>) }

SequentialUploads ==
    { Upload(NamePng, DataNone), Upload(NamePng, DataBlank), Upload(NameSlashPng, DataHi),
      Upload(NameUpperJpg, DataEmptyLine), Upload(NamePdf, DataTwo), Upload(NamePdf, DataLong),
      Upload(NamePdf, DataBad), Upload(NameDots, DataHi),
      Upload(NameControlPng, DataPadded) }

SummarizeTexts ==
    { <<>>, <<" ">>, <<"\n", "\t", " ">>, <<"H", "i">>, <<" ", "H", "i", "\n">>,
      <<VT>>, <<FS, GS, "\r", RS, "\f", US>>, <<GS, "H", "i", VT>>,
      Rep(TruncLimit - 1, "x"), Rep(TruncLimit, "x"), Rep(TruncLimit + 1, "x"),
      <<" ", " ">> \o Rep(TruncLimit, "x") }

SequentialCalls ==
    { ParseCall(FALSE, <<>>, <<>>), ParseCall(TRUE, MissingPdf, <<>>),
      ExtractCall(MissingPdf), ExtractCall(UPLOAD_FOLDER) }
    \cup { ParseCall(FALSE, <<>>, fl) : fl \in FileLists(SequentialUploads) }
    \cup { SummarizeCall(text) : text \in SummarizeTexts }

InitFn ==
    \/ \E path \in StoredPaths, data \in StoredData :
          InitWith({MissingPdf}, path, data, PathCalls(path), {NoCall})
    \/ InitWith({MissingPdf}, StoredPng, DataHi, SequentialCalls, {NoCall})

SpecFn == InitFn /\ [][Next]_vars

(***************************************************************************)
(* What the claims speak of.                                               *)
(***************************************************************************)
\* Thread t serves a POST /parse that takes the upload branch.
UploadMode(t) == inbox[t].fn = "parse" /\ ~inbox[t].hasPath /\ inbox[t].hasFiles

\* The files in the filesystem that t was the last to write.
OwnFiles(t) == {p \in DOMAIN fs : fs[p].kind = "file" /\ fs[p].owner = t}

\* The positions in t's log of the calls named in ops.
Ops(t, ops) == {k \in 1..Len(log[t]) : log[t][k].op \in ops}

\* The sanitized filename of the i-th upload of t's request.
KeyOf(t, i) == secure_filename(inbox[t].files[i].filename)

\* text is empty or all whitespace.
Blank(text) == \A i \in 1..Len(text) : text[i] \in Whitespace

RECURSIVE Sections(_, _, _)
\* The labeled sections of the first n uploads of t, in upload order.
Sections(t, texts, n) ==
    IF n = 0 THEN <<>>
    ELSE Sections(t, texts, n - 1) \o Section(KeyOf(t, n), texts[n])

\* The request of t is one parse() answers 400: file_path is supplied and
\* was not there when parse() tested it, or neither field is supplied.
InputError(t) ==
    \/ /\ inbox[t].hasPath
       /\ log[t] # <<>>
       /\ log[t][1].op = "exists"
       /\ log[t][1].kind = "none"
    \/ ~inbox[t].hasPath /\ ~inbox[t].hasFiles

\* summarize_with_gemini has returned in t's call.
Summarized(t) ==
    \/ resp[t].status = 200
    \/ inbox[t].fn = "summarize_with_gemini" /\ loc[t].returned

\* The last call t logged is an OCR read: loc[t].got is what the recognizer
\* returned and loc[t].text what extract_text made of it.
LastIsOcrRead(t) ==
    /\ log[t] # <<>>
    /\ log[t][Len(log[t])].op = "read"
    /\ log[t][Len(log[t])].reader # 0

\* The recognizer returned a list with no legible line in it.
NoLegibleText(got) == ~got.raises /\ \A i \in 1..Len(got.parts) : Blank(got.parts[i])

(***************************************************************************)
(* C1.                                                                     *)
(***************************************************************************)
\* C1: once an upload-mode request has returned (a response or an escaped
\* exception), no file that the request saved is left in the upload directory.
C1_SavedFilesDeleted ==
    \A t \in Threads :
        (UploadMode(t) /\ resp[t].status # 0) =>
            \A p \in OwnFiles(t) : ~fs[p].complete

(***************************************************************************)
(* C2.                                                                     *)
(***************************************************************************)
\* C2: no parse() request opens, writes, reads or removes a file that another
\* request has saved, and every read of an upload-mode request finds the file
\* that request itself saved.
C2_UploadsNotShared ==
    \A t \in Threads :
        inbox[t].fn = "parse" =>
            \A k \in Ops(t, {"open", "write", "read", "remove"}) :
                /\ ~(log[t][k].owner \in Threads \ {t} /\ log[t][k].complete)
                /\ (UploadMode(t) /\ log[t][k].op = "read") =>
                       /\ log[t][k].kind = "file"
                       /\ log[t][k].owner = t
                       /\ log[t][k].complete

(***************************************************************************)
(* C3.                                                                     *)
(***************************************************************************)
\* C3: easyocr.Reader is constructed at most once, and every OCR read is made
\* on that first instance.
C3_SingleReader ==
    /\ constructed <= 1
    /\ \A t \in Threads :
          \A k \in Ops(t, {"read"}) : log[t][k].reader \in {0, 1}

(***************************************************************************)
(* C4.                                                                     *)
(***************************************************************************)
\* C4 as claimed: a returned parse() request has status 400 exactly when it is
\* an input error, and status 200 otherwise.
C4_OnlyInputErrors ==
    \A t \in Threads :
        (inbox[t].fn = "parse" /\ resp[t].status # 0) =>
            /\ resp[t].status = 400 <=> InputError(t)
            /\ ~InputError(t) => resp[t].status = 200

\* C4 as amended: a returned parse() request has status 400 exactly when it is
\* an input error; it has status 500 (an exception escaped) exactly when it is
\* an upload-mode request that did not get to remove every file, which is when
\* f.save or os.remove raised; every other request has status 200, whatever
\* extraction and summarization did.
C4_Amended ==
    \A t \in Threads :
        (inbox[t].fn = "parse" /\ resp[t].status # 0) =>
            /\ resp[t].status \in {200, 400, 500}
            /\ resp[t].status = 400 <=> InputError(t)
            /\ resp[t].status = 500 <=>
                   /\ UploadMode(t)
                   /\ Cardinality(Ops(t, {"remove"})) < Len(inbox[t].files)
            /\ resp[t].status = 500 => outbound[t] = <<>>

\* An upload-mode request answered 200 although extraction raised and the
\* remote service raised.
C4_Witness ==
    \E t \in Threads :
        /\ UploadMode(t)
        /\ resp[t].status = 200
        /\ loc[t].text = ErrorText(DataBad.msg)
        /\ resp[t].body.summary = GeminiFailed(<<"q", "u", "o", "t", "a">>)

(***************************************************************************)
(* C5.                                                                     *)
(***************************************************************************)
\* C5: a request carrying both file_path and files never opens, writes or
\* removes a file, leaves the host's file at file_path in place, and is
\* answered either 400 'File not found: <path>' or 200 with exactly the
\* message 'Parsed (from path)' and the summary.
C5_PathPrecedence ==
    \A t \in Threads :
        (inbox[t].fn = "parse" /\ inbox[t].hasPath /\ inbox[t].hasFiles) =>
            /\ Ops(t, {"open", "write", "remove"}) = {}
            /\ OwnFiles(t) = {}
            /\ inbox[t].file_path = StoredPng => fs[StoredPng] = HostFile(DataHi)
            /\ resp[t].status # 0 =>
                  \/ /\ resp[t].status = 400
                     /\ DOMAIN resp[t].body = {"error"}
                     /\ resp[t].body.error = MsgNotFound \o inbox[t].file_path
                  \/ /\ resp[t].status = 200
                     /\ DOMAIN resp[t].body = {"message", "summary"}
                     /\ resp[t].body.message = MsgFromPath
                     /\ resp[t].body.summary = loc[t].summary

\* A request with both fields, whose file_path exists, has been answered 200.
C5_Witness ==
    \E t \in Threads :
        /\ inbox[t].fn = "parse" /\ inbox[t].hasPath /\ inbox[t].hasFiles
        /\ inbox[t].file_path = StoredPng
        /\ resp[t].status = 200

(***************************************************************************)
(* C6.                                                                     *)
(***************************************************************************)
\* C6 as claimed: an upload-mode 200 response has as many diagnostics entries
\* as uploaded files, the entry under each file's sanitized filename has the
\* length of the text extracted for that file, and the combined buffer is the
\* files' labeled sections in upload order.
C6_DiagnosticsPerFile ==
    \A t \in Threads :
        (UploadMode(t) /\ resp[t].status = 200) =>
            LET d == resp[t].body.diagnostics
                n == Len(inbox[t].files)
            IN  /\ Len(loc[t].texts) = n
                /\ Cardinality(DOMAIN d) = n
                /\ \A i \in 1..n :
                      /\ KeyOf(t, i) \in DOMAIN d
                      /\ d[KeyOf(t, i)].length = Len(loc[t].texts[i])
                /\ loc[t].combined_text = Sections(t, loc[t].texts, n)

\* C6 as amended: an upload-mode 200 response has one diagnostics entry per
\* distinct sanitized filename, whose length is that of the text extracted for
\* the last uploaded file of that name; the combined buffer is the files'
\* labeled sections, one per file, in upload order.
C6_Amended ==
    \A t \in Threads :
        (UploadMode(t) /\ resp[t].status = 200) =>
            LET d == resp[t].body.diagnostics
                n == Len(inbox[t].files)
                last(i) == CHOOSE j \in i..n :
                               /\ KeyOf(t, j) = KeyOf(t, i)
                               /\ \A m \in (j + 1)..n : KeyOf(t, m) # KeyOf(t, i)
            IN  /\ Len(loc[t].texts) = n
                /\ DOMAIN d = {KeyOf(t, i) : i \in 1..n}
                /\ \A i \in 1..n : d[KeyOf(t, i)] = [length |-> Len(loc[t].texts[last(i)])]
                /\ loc[t].combined_text = Sections(t, loc[t].texts, n)

\* A 200 response to two uploads whose sanitized filenames are equal and whose
\* extracted texts differ in length.
C6_Witness ==
    \E t \in Threads :
        /\ UploadMode(t)
        /\ resp[t].status = 200
        /\ Len(inbox[t].files) = 2
        /\ KeyOf(t, 1) = KeyOf(t, 2)
        /\ Len(loc[t].texts[1]) # Len(loc[t].texts[2])

(***************************************************************************)
(* C7.                                                                     *)
(***************************************************************************)
\* C7: a call sends at most one prompt to the remote service, and none
\* before summarize_with_gemini is entered or for a text that is empty or all
\* whitespace; once summarize_with_gemini has returned, it has sent none and
\* returned the '[No content to summarize]' sentinel if its text was empty or
\* all whitespace, and has sent exactly one otherwise.
C7_CallOnlyWhenNonBlank ==
    \A t \in Threads :
        /\ Len(outbound[t]) <= 1
        /\ outbound[t] # <<>> =>
              /\ pc[t] \in {"await", "done"}
              /\ ~Blank(loc[t].sumIn)
        /\ Summarized(t) =>
              IF Blank(loc[t].sumIn)
              THEN outbound[t] = <<>> /\ loc[t].ret = NoContent
              ELSE Len(outbound[t]) = 1

\* summarize_with_gemini has returned for a text of whitespace only, of the
\* control characters among others.
C7_Witness ==
    \E t \in Threads :
        /\ inbox[t].fn = "summarize_with_gemini"
        /\ loc[t].returned
        /\ FS \in Range(loc[t].sumIn)
        /\ Blank(loc[t].sumIn)

(***************************************************************************)
(* C8.                                                                     *)
(***************************************************************************)
\* C8: every prompt sent is the instruction prefix followed by exactly the
\* first min(len(text), 4000) characters of the text summarized.
C8_PromptBounded ==
    \A t \in Threads :
        \A k \in 1..Len(outbound[t]) :
            LET prompt == outbound[t][k]
                text == loc[t].sumIn
                n == IF Len(text) < 4000 THEN Len(text) ELSE 4000
                h == Len(PromptPrefix)
            IN  /\ Len(prompt) = h + n
                /\ \A i \in 1..h : prompt[i] = PromptPrefix[i]
                /\ \A i \in 1..n : prompt[h + i] = text[i]

\* An upload-mode request has sent the prompt of a combined buffer longer than
\* 4000 characters.
C8_Witness ==
    \E t \in Threads :
        /\ UploadMode(t)
        /\ Len(loc[t].sumIn) > 4000
        /\ outbound[t] # <<>>

(***************************************************************************)
(* C9.                                                                     *)
(***************************************************************************)
\* C9: when the recognizer returns a list with no legible line (empty, or only
\* empty and whitespace lines) for an image path, extract_text returns the
\* '[No text]' sentinel, which is not the empty string.
C9_NoTextNeverEmpty ==
    \A t \in Threads :
        (LastIsOcrRead(t) /\ IsImage(loc[t].path) /\ NoLegibleText(loc[t].got)) =>
            /\ loc[t].text = NoText
            /\ loc[t].text # <<>>

(***************************************************************************)
(* C10.                                                                    *)
(***************************************************************************)
\* C10: at every point of an upload-mode request at most one file it saved
\* exists; a file is opened only as the first call or right after the removal
\* of the file before it; and when summarization starts, and when the request
\* is answered 200, every file has been removed and none of them exists.
C10_OneFileAtATime ==
    \A t \in Threads :
        /\ Cardinality(OwnFiles(t)) <= 1
        /\ UploadMode(t) =>
              /\ \A k \in Ops(t, {"open"}) : k = 1 \/ log[t][k - 1].op = "remove"
              /\ (pc[t] = "summarize" \/ resp[t].status = 200) =>
                    /\ OwnFiles(t) = {}
                    /\ Cardinality(Ops(t, {"remove"})) = Len(inbox[t].files)

\* The second file of a request is saved while a concurrent request is under
\* way, after the first file was removed.
C10_Witness ==
    \E t \in Threads :
        /\ UploadMode(t)
        /\ loc[t].i = 2
        /\ Cardinality(OwnFiles(t)) = 1
        /\ Ops(t, {"remove"}) # {}
        /\ \E u \in Threads \ {t} : pc[u] \notin {"idle", "done"}

====
